---- MODULE Spec2Model ----
(***************************************************************************)
(* College Buddy assistant (src/assistant.py): the query orchestration,     *)
(* metadata ranking, context truncation, two-pass refinement and response  *)
(* formatting/streaming, as state machines.                                *)
(*                                                                         *)
(* Strings are sequences of one-character strings.  Scores are the exact   *)
(* rationals SequenceMatcher.ratio() computes, scaled by ScoreScale so     *)
(* that they are integers.                                                 *)
(***************************************************************************)
EXTENDS Integers, Sequences, FiniteSets, TLC

VARIABLES
    store,            \* table documents: the rows, in rowid order
    keywords,         \* query_db_for_keywords: its argument
    db_results,       \* query_db_for_keywords: what it returned
    intent_keywords,  \* query_for_multiple_intents: its argument, in dict order
    intent_data,      \* query_for_multiple_intents: the dict it builds, in dict order
    all_db_results,   \* query_for_multiple_intents: the set of entries seen
    new_db_results,   \* query_for_multiple_intents: the entries kept for the intent under way
    pc,               \* the position of the operation under way
    rstep,            \* get_answer: the position inside one iteration of the intents loop
    ga,               \* get_answer's safe_run_tree wrapper: where it is, what failed in it
    iw,               \* the wrapper of the operation get_answer is calling
    loc,              \* get_answer's local variables
    runs,             \* per wrapped operation: executions of its body in its current invocation
    faults,           \* the failures injected so far: tracing calls and collaborator calls
    last,             \* the wrapper invocation (other than get_answer's) that completed last
    error,            \* the exception that reached get_answer's caller
    log,              \* the stages run so far, kept as long as no call has failed:
                      \* operation bodies, metadata queries and index queries
    context,          \* generate_multi_intent_answer: the assembled context
    tokens,           \* truncate_text: the tokens of its argument
    truncated_context,\* generate_multi_intent_answer: what truncate_text returned
    prompt_context,   \* the context in the message sent to the chat model
    answer,           \* format_response: its argument
    formatted_chunks, \* format_response: what it returned
    response_buffer,  \* stream_formatted_response: the display buffer
    yielded,          \* stream_formatted_response: the buffers yielded so far, each with
                      \* the index of the chunk the loop was at
    chunk_index,      \* stream_formatted_response: the position of the chunks loop
    word_index        \* stream_formatted_response: i of the windows loop

qvars == <<store, keywords, db_results>>
rvars == <<intent_keywords, intent_data, all_db_results, new_db_results>>
pvars == <<rstep, ga, iw, loc, runs, faults, last, error, log>>
cvars == <<context, tokens, truncated_context, prompt_context>>
fvars == <<answer, formatted_chunks, response_buffer, yielded, chunk_index, word_index>>
vars == <<qvars, rvars, pc, pvars, cvars, fvars>>

\* ------------------------------------------------------------------ bounds
\* documents in the store
MaxDocs == 3
\* keywords in one intent's keyword list
MaxKeywords == 2

\* ------------------------------------------------------------- characters
Min(x, y) == IF x <= y THEN x ELSE y

\* str.lower() on one character of the model alphabet
LowerChar(c) == CASE c = "A" -> "a" [] c = "B" -> "b" [] OTHER -> c

\* str.lower()
lower(s) == [i \in DOMAIN s |-> LowerChar(s[i])]

\* p occurs in s as a contiguous substring
IsSubstring(p, s) ==
    \E i \in 0..(Len(s) - Len(p)) : SubSeq(s, i + 1, i + Len(p)) = p

\* SQLite: tags LIKE '%keyword%' (LIKE ignores ASCII case; the model
\* alphabet holds neither of LIKE's wildcards % and _)
Like(tags, keyword) == IsSubstring(lower(keyword), lower(tags))

\* str.split(','): "" gives [""], "a,,b" gives ["a", "", "b"]
RECURSIVE split(_)
split(s) ==
    IF \E i \in 1..Len(s) : s[i] = ","
    THEN LET i == CHOOSE j \in 1..Len(s) :
                      s[j] = "," /\ \A h \in 1..(j - 1) : s[h] # ","
         IN <<SubSeq(s, 1, i - 1)>> \o split(SubSeq(s, i + 1, Len(s)))
    ELSE <<s>>

\* ---------------------------------------------------- difflib.SequenceMatcher
\* the matching blocks <<i, j, k>> (0-based starts, size k >= 1) of
\* a[alo:ahi] and b[blo:bhi]
Blocks(a, b, alo, ahi, blo, bhi) ==
    {t \in (alo..(ahi - 1)) \X (blo..(bhi - 1)) \X (1..Min(ahi - alo, bhi - blo)) :
        /\ t[1] + t[3] <= ahi
        /\ t[2] + t[3] <= bhi
        /\ \A d \in 0..(t[3] - 1) : a[t[1] + d + 1] = b[t[2] + d + 1]}

\* find_longest_match: the longest block; of those, the one that starts
\* earliest in a; of those, the one that starts earliest in b
find_longest_match(a, b, alo, ahi, blo, bhi) ==
    LET S == Blocks(a, b, alo, ahi, blo, bhi)
    IN CHOOSE t \in S : \A u \in S :
           \/ t[3] > u[3]
           \/ t[3] = u[3] /\ t[1] < u[1]
           \/ t[3] = u[3] /\ t[1] = u[1] /\ t[2] <= u[2]

\* get_matching_blocks: the total size of the blocks found by recursing to
\* the left and to the right of the longest match
RECURSIVE matching_size(_, _, _, _, _, _)
matching_size(a, b, alo, ahi, blo, bhi) ==
    IF Blocks(a, b, alo, ahi, blo, bhi) = {}
    THEN 0
    ELSE LET t == find_longest_match(a, b, alo, ahi, blo, bhi)
         IN t[3] + matching_size(a, b, alo, t[1], blo, t[2])
                 + matching_size(a, b, t[1] + t[3], ahi, t[2] + t[3], bhi)

RECURSIVE Gcd(_, _)
Gcd(x, y) == IF y = 0 THEN x ELSE Gcd(y, x % y)

RECURSIVE LcmUpTo(_)
LcmUpTo(n) == IF n <= 1 THEN 1 ELSE LET l == LcmUpTo(n - 1) IN (l * n) \div Gcd(l, n)

\* the pools the model draws keywords and tag strings from
KeywordPool == {<< >>, <<"a">>, <<"B">>, <<"A", "b">>}
TagPool == {<<"a">>, <<"b">>, <<"a", "b">>, <<"b", ",", "A">>}

MaxOf(S) == CHOOSE x \in S : \A y \in S : y <= x

\* every ratio 2*M/T of the model has T <= MaxRatioLen
MaxRatioLen == MaxOf({Len(k) : k \in KeywordPool}) + MaxOf({Len(t) : t \in TagPool})
ScoreScale == LcmUpTo(MaxRatioLen)

\* SequenceMatcher(None, a, b).ratio() * ScoreScale: 2.0 * matches / length,
\* and 1.0 when both are empty
ratio(a, b) ==
    IF Len(a) + Len(b) = 0
    THEN ScoreScale
    ELSE (2 * matching_size(a, b, 0, Len(a), 0, Len(b)) * ScoreScale)
             \div (Len(a) + Len(b))

RECURSIVE SumSeq(_)
SumSeq(s) == IF s = << >> THEN 0 ELSE Head(s) + SumSeq(Tail(s))

\* the score of one row for one keyword (line 206)
score(keyword, tags) ==
    LET parts == split(tags)
    IN SumSeq([i \in DOMAIN parts |-> ratio(lower(keyword), lower(parts[i]))])

\* the scores of the pools, computed once
ScoreTable == [k \in KeywordPool |-> [t \in TagPool |-> score(k, t)]]


\* ------------------------------------------------------------ the store
\* the rows of table documents in rowid order, which is the order a full
\* scan returns them in; a row is (id, tags): title and links are never read
RECURSIVE SeqsUpTo(_, _)
SeqsUpTo(S, n) ==
    IF n = 0 THEN {<< >>}
    ELSE LET shorter == SeqsUpTo(S, n - 1)
         IN shorter \cup {Append(q, x) : q \in {r \in shorter : Len(r) = n - 1}, x \in S}

Rows(t) == [i \in DOMAIN t |-> [id |-> i, tags |-> t[i]]]
Stores == {Rows(t) : t \in SeqsUpTo(TagPool, MaxDocs)}
KwLists == SeqsUpTo(KeywordPool, MaxKeywords)

\* ------------------------------------------------- query_db_for_keywords
\* the entries of one keyword with a score floor: rows that score 0 are dropped
RECURSIVE RowEntriesFloor(_, _)
RowEntriesFloor(keyword, rows) ==
    IF rows = << >> THEN << >>
    ELSE (IF Like(Head(rows).tags, keyword) /\ ScoreTable[keyword][Head(rows).tags] > 0
          THEN <<[score |-> ScoreTable[keyword][Head(rows).tags], row |-> Head(rows)]>>
          ELSE << >>) \o RowEntriesFloor(keyword, Tail(rows))

\* lines 203-207 for one keyword: an entry (score, row) for every row the
\* LIKE query returns, in row order
RECURSIVE RowEntries(_, _)
RowEntries(keyword, rows) ==
    IF rows = << >> THEN << >>
    ELSE (IF Like(Head(rows).tags, keyword)
          THEN <<[score |-> ScoreTable[keyword][Head(rows).tags], row |-> Head(rows)]>>
          ELSE << >>) \o RowEntries(keyword, Tail(rows))

\* lines 202-207: the entries of all keywords, keyword by keyword
RECURSIVE Candidates(_, _)
Candidates(kws, rows) ==
    IF kws = << >> THEN << >>
    ELSE RowEntries(Head(kws), rows) \o Candidates(Tail(kws), rows)

\* a descending sort that is not stable: e goes before the entries that tie with it
InsertDescUnstable(sorted, e) ==
    LET n == Cardinality({i \in DOMAIN sorted : sorted[i].score > e.score})
    IN SubSeq(sorted, 1, n) \o <<e>> \o SubSeq(sorted, n + 1, Len(sorted))

\* where a stable descending sort puts e among the sorted entries before it:
\* after every entry whose score is at least e's
InsertDesc(sorted, e) ==
    LET n == Cardinality({i \in DOMAIN sorted : sorted[i].score >= e.score})
    IN SubSeq(sorted, 1, n) \o <<e>> \o SubSeq(sorted, n + 1, Len(sorted))

\* results.sort(reverse=True, key=lambda x: x[0]): stable, descending
RECURSIVE SortDesc(_)
SortDesc(s) ==
    IF s = << >> THEN << >>
    ELSE InsertDesc(SortDesc(SubSeq(s, 1, Len(s) - 1)), s[Len(s)])

\* results[:3]
TopK == 3
Truncate(s) == SubSeq(s, 1, Min(TopK, Len(s)))

query_db_for_keywords(kws, rows) == Truncate(SortDesc(Candidates(kws, rows)))

\* line 217: the entries whose document id is not among those already seen
NewDbResults(results, seen) ==
    SelectSeq(results, LAMBDA r : r.row.id \notin {x.row.id : x \in seen})

Range(s) == {s[i] : i \in DOMAIN s}

\* ------------------------------------------------------------ intents
IntentPool == <<"i1", "i2">>
ContextPool == {<<"c">>}

\* the dicts {intent: keywords} of up to Len(IntentPool) intents
IntentKeywordMaps ==
    UNION {[1..n -> KwLists] : n \in 0..Len(IntentPool)}

IntentKeywords(m) == [i \in DOMAIN m |-> [intent |-> IntentPool[i], keywords |-> m[i]]]

\* ------------------------------------------------ the idle parts of a state
IdleQuery == store = << >> /\ keywords = << >> /\ db_results = << >>
IdleRetrieval ==
    /\ intent_keywords = << >>
    /\ intent_data = << >>
    /\ all_db_results = {}
    /\ new_db_results = << >>

Ops == {"get_answer", "identify_intents", "generate_keywords_per_intent", "get_embedding",
        "generate_multi_intent_answer", "extract_keywords_from_response"}

NoResult == "-"
IdleWrapper ==
    [phase |-> "none", attempt |-> 1, trace_failed |-> FALSE, body_failed |-> FALSE,
     result |-> NoResult]
NoCall == [op |-> "none", trace_failed |-> FALSE, body_failed |-> FALSE, outcome |-> "none"]

\* get_answer's locals before its body assigns them
EmptyLocals ==
    [intents |-> << >>, intent_keywords |-> << >>, intent_data |-> << >>,
     initial_answer |-> NoResult, response_keywords |-> << >>, all_keywords |-> << >>,
     expanded_intent_data |-> << >>, final_answer |-> NoResult]

IdlePipeline ==
    /\ rstep = "-"
    /\ ga = IdleWrapper
    /\ iw = IdleWrapper
    /\ loc = EmptyLocals
    /\ runs = [o \in Ops |-> 0]
    /\ faults = [trace |-> 0, collab |-> 0]
    /\ last = NoCall
    /\ error = "none"
    /\ log = << >>

NoText == <<"-">>
IdleContext ==
    /\ context = NoText
    /\ tokens = << >>
    /\ truncated_context = NoText
    /\ prompt_context = NoText

IdleFormat ==
    /\ answer = NoText
    /\ formatted_chunks = << >>
    /\ response_buffer = << >>
    /\ yielded = << >>
    /\ chunk_index = 0
    /\ word_index = 0

\* ------------------------------------------- query_db_for_keywords, called
InitQuery ==
    /\ store \in Stores
    /\ keywords \in KwLists
    /\ db_results = << >>
    /\ pc = "query_db"
    /\ IdleRetrieval
    /\ IdlePipeline
    /\ IdleContext
    /\ IdleFormat

QueryDb ==
    /\ pc = "query_db"
    /\ db_results' = query_db_for_keywords(keywords, store)
    /\ pc' = "query_db_returned"
    /\ UNCHANGED <<store, keywords, rvars, pvars, cvars, fvars>>

NextQuery == QueryDb

SpecQuery == InitQuery /\ [][NextQuery]_vars

\* -------------------------------------- query_for_multiple_intents, called
InitRetrieval ==
    /\ store \in Stores
    /\ intent_keywords \in {IntentKeywords(m) : m \in IntentKeywordMaps}
    /\ keywords = << >>
    /\ db_results = << >>
    /\ intent_data = << >>
    /\ all_db_results = {}
    /\ new_db_results = << >>
    /\ pc = "intents_loop"
    /\ IdlePipeline
    /\ IdleContext
    /\ IdleFormat

\* lines 215-223: one iteration of the loop over the intents
QueryIntent ==
    /\ pc = "intents_loop"
    /\ Len(intent_data) < Len(intent_keywords)
    /\ LET ik == intent_keywords[Len(intent_data) + 1]
           found == query_db_for_keywords(ik.keywords, store)
           new == NewDbResults(found, all_db_results)
       IN /\ keywords' = ik.keywords
          /\ db_results' = found
          /\ new_db_results' = new
          /\ all_db_results' = all_db_results \cup Range(new)
          /\ \E ctx \in ContextPool :
                intent_data' = Append(intent_data,
                    [intent |-> ik.intent, db_results |-> new,
                     pinecone_context |-> ctx])
    /\ UNCHANGED <<store, intent_keywords, pc, pvars, cvars, fvars>>

\* line 224
ReturnIntentData ==
    /\ pc = "intents_loop"
    /\ Len(intent_data) = Len(intent_keywords)
    /\ pc' = "intents_returned"
    /\ UNCHANGED <<qvars, rvars, pvars, cvars, fvars>>

NextRetrieval == QueryIntent \/ ReturnIntentData

SpecRetrieval == InitRetrieval /\ [][NextRetrieval]_vars

\* ====================================================================
\* The context of the synthesis call: lines 228-230 and truncate_text
\* ====================================================================
\* max_context_tokens of line 229 (4000), at the model's scale
max_context_tokens == 5

\* the texts of the intents and of the query
IntentText(i) ==
    CASE i = "i1" -> <<"x">> [] i = "i2" -> <<"y">> [] OTHER -> <<"x", "y">>

\* str(data['db_results']): the list's brackets around its entries, each
\* entry's text standing as the one character "e"
str_db_results(entries) == <<"[">> \o [i \in DOMAIN entries |-> "e"] \o <<"]">>

\* line 228, one intent's block; I, D and P stand for the labels
\* "Intent: ", "DB Results: " and "Pinecone Context: "
Block(d) ==
    <<"I">> \o IntentText(d.intent) \o <<"\n", "D">> \o str_db_results(d.db_results)
            \o <<"\n", "P">> \o d.pinecone_context

\* line 228: "\n".join(blocks)
RECURSIVE JoinBlocks(_)
JoinBlocks(data) ==
    IF data = << >> THEN << >>
    ELSE IF Len(data) = 1 THEN Block(data[1])
    ELSE Block(data[1]) \o <<"\n">> \o JoinBlocks(Tail(data))

\* the tokenizer: byte pair encoding; a token is a piece of text, and the
\* merge table lists the pairs of tokens that merge, the first ranking lowest
MergeTable ==
    << << <<"x">>, <<"y">> >>,
       << <<"\n">>, <<"D">> >>,
       << <<"\n">>, <<"P">> >>,
       << <<"[">>, <<"]">> >>,
       << <<"I">>, <<"x">> >>,
       << <<"c">>, <<"x", "y">> >> >>

\* the rank of the pair (l, r), 0 when it does not merge
Rank(l, r) ==
    IF \E i \in DOMAIN MergeTable : MergeTable[i] = <<l, r>>
    THEN CHOOSE i \in DOMAIN MergeTable : MergeTable[i] = <<l, r>>
    ELSE 0

\* merge the lowest-ranking adjacent pair, the leftmost of them, until no
\* adjacent pair merges
RECURSIVE BytePairMerge(_)
BytePairMerge(parts) ==
    LET cand == {i \in 1..(Len(parts) - 1) : Rank(parts[i], parts[i + 1]) > 0}
    IN IF cand = {} THEN parts
       ELSE LET best == CHOOSE i \in cand : \A j \in cand :
                            \/ Rank(parts[i], parts[i + 1]) < Rank(parts[j], parts[j + 1])
                            \/ /\ Rank(parts[i], parts[i + 1]) = Rank(parts[j], parts[j + 1])
                               /\ i <= j
            IN BytePairMerge(SubSeq(parts, 1, best - 1)
                             \o <<parts[best] \o parts[best + 1]>>
                             \o SubSeq(parts, best + 2, Len(parts)))

\* tokenizer.encode(text)
Encode(text) == BytePairMerge([i \in DOMAIN text |-> <<text[i]>>])

\* tokenizer.decode(tokens)
RECURSIVE Decode(_)
Decode(toks) == IF toks = << >> THEN << >> ELSE Head(toks) \o Decode(Tail(toks))

\* tokens[:max_tokens]
Slice(s, n) == SubSeq(s, 1, Min(n, Len(s)))

\* truncate_text without the cut
truncate_text_uncut(text, max_tokens) == Decode(Encode(text))

\* lines 129-132
truncate_text(text, max_tokens) == Decode(Slice(Encode(text), max_tokens))

\* lines 228-243 in the body of op: the context is assembled from the intent
\* data of the pass under way, truncated, and put in the message to the chat
\* model
ContextEffect(op) ==
    IF op = "generate_multi_intent_answer"
    THEN LET data == IF pc = "answer1" THEN loc.intent_data ELSE loc.expanded_intent_data
             assembled == JoinBlocks(data)
         IN /\ context' = assembled
            /\ tokens' = Encode(assembled)
            /\ truncated_context' = truncate_text(assembled, max_context_tokens)
            /\ prompt_context' = truncated_context'
    ELSE UNCHANGED cvars

\* ====================================================================
\* get_answer, with the safe_run_tree wrappers around it and around the
\* operations it calls
\* ====================================================================
\* failures (of tracing calls and of collaborator calls) injected in one run
MaxFaults == 2

Query == "q"
AnswerPool == {"answer"}

\* what the chat model's reply to a keyword prompt gives once split at the
\* commas and stripped (lines 190-191, 258-259): never an empty list
LlmKwLists ==
    { << <<"a">> >>, << <<"B">>, <<"a">> >>, << <<"a">>, <<"B">> >>, << << >> >> }

PipelineStores ==
    { Rows(<< <<"a">>, <<"b", ",", "A">>, <<"b">> >>), Rows(<< <<"a", "b">> >>) }

\* line 269, list(set(...)): the distinct elements in any order
Orderings(S) ==
    {q \in [1..Cardinality(S) -> S] : \A i, j \in 1..Cardinality(S) : q[i] = q[j] => i = j}

\* what the handler of lines 118-120 does with an exception raised inside
\* the with block: it runs func again
ExceptTargetRaise == "raise"
ExceptTarget == "retry"

CanFault == faults.trace + faults.collab < MaxFaults
TraceFault == [faults EXCEPT !.trace = @ + 1]
CollabFault == [faults EXCEPT !.collab = @ + 1]

\* a stage as the log records it: the operation, and for a query of the
\* retrieval its intent and (metadata query) its keywords
Stage(op, intent, kws) == [op |-> op, intent |-> intent, keywords |-> kws]

\* the log after a step that ran the given stages: it is emptied, and stays
\* empty, once a call has failed
Recorded(stages) ==
    log' = IF faults'.trace + faults'.collab = 0 THEN log \o stages ELSE << >>

\* get_answer's body without the keyword extraction of line 268: the draft
\* is followed by a synthesis call
OpAtNoExtraction ==
    CASE pc = "identify_intents" -> "identify_intents"
      [] pc = "generate_keywords" -> "generate_keywords_per_intent"
      [] pc \in {"retrieve1", "retrieve2"} /\ rstep = "embed" -> "get_embedding"
      [] pc \in {"answer1", "answer2", "extract"} -> "generate_multi_intent_answer"
      [] OTHER -> "none"

\* the wrapped operation get_answer's body is at
OpAt ==
    CASE pc = "identify_intents" -> "identify_intents"
      [] pc = "generate_keywords" -> "generate_keywords_per_intent"
      [] pc \in {"retrieve1", "retrieve2"} /\ rstep = "embed" -> "get_embedding"
      [] pc \in {"answer1", "answer2"} -> "generate_multi_intent_answer"
      [] pc = "extract" -> "extract_keywords_from_response"
      [] OTHER -> "none"

\* line 262: get_answer's body starts; r is runs as of now
BodyStart(r) ==
    /\ pc' = "identify_intents"
    /\ rstep' = "-"
    /\ loc' = EmptyLocals
    /\ iw' = IdleWrapper
    /\ runs' = [r EXCEPT !["get_answer"] = @ + 1]
    /\ intent_keywords' = << >>
    /\ intent_data' = << >>
    /\ all_db_results' = {}
    /\ new_db_results' = << >>
    /\ keywords' = << >>
    /\ db_results' = << >>
    /\ UNCHANGED store

\* an exception is raised in get_answer's wrapper, by a tracing call or
\* (fromBody) by get_answer's body: inside the with block the handler of
\* line 118 catches it and line 120 runs the body again; raised by line 120
\* it reaches the caller
GaHandle(kind, fromBody, r) ==
    LET flagged == [ga EXCEPT !.trace_failed = @ \/ ~fromBody,
                              !.body_failed = @ \/ fromBody]
    IN IF ga.attempt = 1 /\ ExceptTarget = "retry"
       THEN /\ ga' = [flagged EXCEPT !.phase = "body", !.attempt = 2]
            /\ error' = error
            /\ BodyStart(r)
       ELSE /\ ga' = [flagged EXCEPT !.phase = "raised"]
            /\ error' = kind
            /\ pc' = "done"
            /\ iw' = IdleWrapper
            /\ runs' = r
            /\ UNCHANGED <<rstep, loc, qvars, rvars>>

\* the same in the wrapper of operation op, called by get_answer's body:
\* what line 120 raises is raised in get_answer's body
IwHandle(kind, fromBody, op, r) ==
    LET flagged == [iw EXCEPT !.trace_failed = @ \/ ~fromBody,
                              !.body_failed = @ \/ fromBody]
    IN IF iw.attempt = 1 /\ ExceptTarget = "retry"
       THEN /\ iw' = [flagged EXCEPT !.phase = "body", !.attempt = 2, !.result = NoResult]
            /\ runs' = r
            /\ UNCHANGED <<pc, rstep, ga, loc, last, error, qvars, rvars>>
       ELSE /\ last' = [op |-> op, trace_failed |-> flagged.trace_failed,
                        body_failed |-> flagged.body_failed, outcome |-> "raised"]
            /\ GaHandle(kind, TRUE, r)

\* the wrapper of op returns result to get_answer's body, which goes on
IwReturn(op, result, r) ==
    /\ last' = [op |-> op, trace_failed |-> iw.trace_failed,
                body_failed |-> iw.body_failed, outcome |-> "returned"]
    /\ iw' = IdleWrapper
    /\ runs' = r
    /\ UNCHANGED <<ga, error, qvars>>
    /\ CASE op = "identify_intents" ->
              /\ loc' = [loc EXCEPT !.intents = result]
              /\ pc' = "generate_keywords"
              /\ UNCHANGED <<rstep, rvars>>
         [] op = "generate_keywords_per_intent" ->
              /\ loc' = [loc EXCEPT !.intent_keywords = result]
              /\ pc' = "retrieve1"
              /\ rstep' = "db"
              /\ intent_keywords' = result
              /\ intent_data' = << >>
              /\ all_db_results' = {}
              /\ new_db_results' = << >>
         [] op = "get_embedding" ->
              /\ rstep' = "index"
              /\ UNCHANGED <<pc, loc, rvars>>
         [] op = "generate_multi_intent_answer" ->
              /\ loc' = IF pc = "answer1"
                        THEN [loc EXCEPT !.initial_answer = result]
                        ELSE [loc EXCEPT !.final_answer = result]
              /\ pc' = IF pc = "answer1" THEN "extract" ELSE "return"
              /\ UNCHANGED <<rstep, rvars>>
         [] op = "extract_keywords_from_response" ->
              /\ loc' = [loc EXCEPT !.response_keywords = result]
              /\ pc' = "union"
              /\ UNCHANGED <<rstep, rvars>>

\* what the body of op can return
BodyResults(op) ==
    CASE op = "identify_intents" -> {<< >>, <<IntentPool[1]>>}
      [] op = "generate_keywords_per_intent" ->
            IF loc.intents = << >> THEN {<< >>}
            ELSE {<<[intent |-> loc.intents[1], keywords |-> k]>> : k \in LlmKwLists}
      [] op = "get_embedding" -> {"vector"}
      [] op = "generate_multi_intent_answer" -> AnswerPool
      [] op = "extract_keywords_from_response" -> LlmKwLists

\* the body of op calls a collaborator (generate_keywords_per_intent calls
\* the chat model once per intent)
BodyCalls(op) == op # "generate_keywords_per_intent" \/ loc.intents # << >>

InitPipeline ==
    /\ store \in PipelineStores
    /\ keywords = << >>
    /\ db_results = << >>
    /\ IdleRetrieval
    /\ pc = "call"
    /\ rstep = "-"
    /\ ga = [IdleWrapper EXCEPT !.phase = "trace_open"]
    /\ iw = IdleWrapper
    /\ loc = EmptyLocals
    /\ runs = [o \in Ops |-> 0]
    /\ faults = [trace |-> 0, collab |-> 0]
    /\ last = NoCall
    /\ error = "none"
    /\ log = << >>
    /\ IdleContext
    /\ IdleFormat

\* line 114 in get_answer's wrapper: the trace opens, or fails to
GaTraceOpen ==
    /\ ga.phase = "trace_open"
    /\ UNCHANGED <<cvars, fvars>>
    /\ \/ /\ ga' = [ga EXCEPT !.phase = "body"]
          /\ BodyStart(runs)
          /\ UNCHANGED <<faults, last, error>>
       \/ /\ CanFault
          /\ faults' = TraceFault
          /\ GaHandle("tracing", FALSE, runs)
          /\ UNCHANGED last
    /\ Recorded(<< >>)

\* line 114 in the wrapper of the operation get_answer's body calls
InnerTraceOpen ==
    /\ ga.phase = "body" /\ iw.phase = "none" /\ OpAt # "none"
    /\ UNCHANGED <<cvars, fvars>>
    /\ LET r == [runs EXCEPT ![OpAt] = 0]
       IN \/ /\ iw' = [IdleWrapper EXCEPT !.phase = "body"]
             /\ runs' = r
             /\ UNCHANGED <<pc, rstep, ga, loc, last, error, qvars, rvars, faults>>
          \/ /\ CanFault
             /\ faults' = TraceFault
             /\ IwHandle("tracing", FALSE, OpAt, r)
    /\ Recorded(<< >>)

\* lines 115 and 120: the body of op runs, and returns or raises
InnerBody(op) ==
    /\ ga.phase = "body" /\ iw.phase = "body" /\ OpAt = op
    /\ ContextEffect(op)
    /\ UNCHANGED fvars
    /\ LET r == [runs EXCEPT ![op] = @ + 1]
       IN \/ /\ UNCHANGED faults
             /\ \E res \in BodyResults(op) :
                   IF iw.attempt = 1
                   THEN /\ iw' = [iw EXCEPT !.phase = "run_end", !.result = res]
                        /\ runs' = r
                        /\ UNCHANGED <<pc, rstep, ga, loc, last, error, qvars, rvars>>
                   ELSE IwReturn(op, res, r)
          \/ /\ CanFault /\ BodyCalls(op)
             /\ faults' = CollabFault
             /\ IwHandle("collaborator", TRUE, op, r)
    /\ Recorded(<<Stage(op, "-", << >>)>>)

IdentifyIntents == InnerBody("identify_intents")
GenerateKeywordsPerIntent == InnerBody("generate_keywords_per_intent")
GetEmbedding == InnerBody("get_embedding")
GenerateMultiIntentAnswer == InnerBody("generate_multi_intent_answer")
ExtractKeywordsFromResponse == InnerBody("extract_keywords_from_response")

\* lines 116-117 in the wrapper of the called operation
InnerRunEnd ==
    /\ ga.phase = "body" /\ iw.phase = "run_end"
    /\ UNCHANGED <<cvars, fvars>>
    /\ \/ /\ UNCHANGED faults
          /\ IwReturn(OpAt, iw.result, runs)
       \/ /\ CanFault
          /\ faults' = TraceFault
          /\ IwHandle("tracing", FALSE, OpAt, runs)
    /\ Recorded(<< >>)

\* lines 216-218: the metadata query of the intent under way
RetrieveDb ==
    /\ ga.phase = "body" /\ pc \in {"retrieve1", "retrieve2"} /\ rstep = "db"
    /\ Len(intent_data) < Len(intent_keywords)
    /\ UNCHANGED <<cvars, fvars>>
    /\ \/ LET ik == intent_keywords[Len(intent_data) + 1]
              found == query_db_for_keywords(ik.keywords, store)
              new == NewDbResults(found, all_db_results)
          IN /\ keywords' = ik.keywords
             /\ db_results' = found
             /\ new_db_results' = new
             /\ all_db_results' = all_db_results \cup Range(new)
             /\ rstep' = "embed"
             /\ UNCHANGED <<store, intent_keywords, intent_data, pc, ga, iw, loc,
                            runs, faults, last, error>>
       \/ /\ CanFault
          /\ faults' = CollabFault
          /\ GaHandle("collaborator", TRUE, runs)
          /\ UNCHANGED last
    /\ Recorded(<<Stage("query_db_for_keywords",
                      intent_keywords[Len(intent_data) + 1].intent,
                      intent_keywords[Len(intent_data) + 1].keywords)>>)

\* lines 160-167 and 220-223: the index query, and the intent's entry
RetrieveIndex ==
    /\ ga.phase = "body" /\ pc \in {"retrieve1", "retrieve2"} /\ rstep = "index"
    /\ UNCHANGED <<cvars, fvars>>
    /\ \/ /\ \E ctx \in ContextPool :
                intent_data' = Append(intent_data,
                    [intent |-> intent_keywords[Len(intent_data) + 1].intent,
                     db_results |-> new_db_results, pinecone_context |-> ctx])
          /\ rstep' = "db"
          /\ UNCHANGED <<qvars, intent_keywords, all_db_results, new_db_results, pc,
                         ga, iw, loc, runs, faults, last, error>>
       \/ /\ CanFault
          /\ faults' = CollabFault
          /\ GaHandle("collaborator", TRUE, runs)
          /\ UNCHANGED last
    /\ Recorded(<<Stage("index.query",
                      intent_keywords[Len(intent_data) + 1].intent, << >>)>>)

\* line 224, back in lines 265 and 271
RetrieveReturn ==
    /\ ga.phase = "body" /\ pc \in {"retrieve1", "retrieve2"} /\ rstep = "db"
    /\ Len(intent_data) = Len(intent_keywords)
    /\ UNCHANGED <<cvars, fvars>>
    /\ loc' = IF pc = "retrieve1"
              THEN [loc EXCEPT !.intent_data = intent_data]
              ELSE [loc EXCEPT !.expanded_intent_data = intent_data]
    /\ pc' = IF pc = "retrieve1" THEN "answer1" ELSE "answer2"
    /\ rstep' = "-"
    /\ UNCHANGED <<qvars, rvars, ga, iw, runs, faults, last, error>>
    /\ Recorded(<< >>)

\* line 269, and the call of line 271
UnionKeywords ==
    /\ ga.phase = "body" /\ pc = "union"
    /\ UNCHANGED <<cvars, fvars>>
    /\ IF loc.intents = << >>
       THEN /\ GaHandle("IndexError", TRUE, runs)
            /\ UNCHANGED <<faults, last>>
       ELSE \E all \in Orderings(Range(loc.intent_keywords[1].keywords
                                          \o loc.response_keywords)) :
              /\ loc' = [loc EXCEPT !.all_keywords = all]
              /\ intent_keywords' = <<[intent |-> Query, keywords |-> all]>>
              /\ intent_data' = << >>
              /\ all_db_results' = {}
              /\ new_db_results' = << >>
              /\ pc' = "retrieve2"
              /\ rstep' = "db"
              /\ UNCHANGED <<qvars, ga, iw, runs, faults, last, error>>
    /\ Recorded(<< >>)

\* line 274: the body returns, to line 116 or to the caller of line 120
ReturnAnswer ==
    /\ ga.phase = "body" /\ pc = "return"
    /\ UNCHANGED <<cvars, fvars>>
    /\ IF ga.attempt = 1
       THEN ga' = [ga EXCEPT !.phase = "run_end"] /\ pc' = pc
       ELSE ga' = [ga EXCEPT !.phase = "returned"] /\ pc' = "done"
    /\ UNCHANGED <<qvars, rvars, rstep, iw, loc, runs, faults, last, error>>
    /\ Recorded(<< >>)

\* lines 116-117 in get_answer's wrapper
GaRunEnd ==
    /\ ga.phase = "run_end"
    /\ UNCHANGED <<cvars, fvars>>
    /\ \/ /\ ga' = [ga EXCEPT !.phase = "returned"]
          /\ pc' = "done"
          /\ UNCHANGED <<qvars, rvars, rstep, iw, loc, runs, faults, last, error>>
       \/ /\ CanFault
          /\ faults' = TraceFault
          /\ GaHandle("tracing", FALSE, runs)
          /\ UNCHANGED last
    /\ Recorded(<< >>)

Next ==
    \/ GaTraceOpen \/ InnerTraceOpen \/ InnerRunEnd
    \/ IdentifyIntents \/ GenerateKeywordsPerIntent \/ GetEmbedding
    \/ GenerateMultiIntentAnswer \/ ExtractKeywordsFromResponse
    \/ RetrieveDb \/ RetrieveIndex \/ RetrieveReturn
    \/ UnionKeywords \/ ReturnAnswer \/ GaRunEnd

Spec == InitPipeline /\ [][Next]_vars

\* ------------------------------- generate_multi_intent_answer, called
\* the intent data the model draws: per intent, some ranked matches and a
\* semantic context text
SampleEntries ==
    << [score |-> ScoreScale, row |-> [id |-> 1, tags |-> <<"a">>]],
       [score |-> 0, row |-> [id |-> 2, tags |-> <<"b">>]] >>
ContextTexts == {<< >>, <<"c">>, <<"c", "x", "y">>}
IntentDataPool ==
    UNION {[1..n -> {Slice(SampleEntries, k) : k \in 0..Len(SampleEntries)} \X ContextTexts] :
               n \in 0..Len(IntentPool)}
IntentData(m) ==
    [i \in DOMAIN m |-> [intent |-> IntentPool[i], db_results |-> m[i][1],
                         pinecone_context |-> m[i][2]]]

InitContext ==
    /\ store = << >> /\ keywords = << >> /\ db_results = << >>
    /\ intent_keywords = << >>
    /\ intent_data \in {IntentData(m) : m \in IntentDataPool}
    /\ all_db_results = {}
    /\ new_db_results = << >>
    /\ pc = "assemble"
    /\ IdlePipeline
    /\ IdleContext
    /\ IdleFormat

\* line 228
AssembleContext ==
    /\ pc = "assemble"
    /\ context' = JoinBlocks(intent_data)
    /\ pc' = "truncate"
    /\ UNCHANGED <<qvars, rvars, pvars, fvars, tokens, truncated_context, prompt_context>>

\* line 230, truncate_text
TruncateText ==
    /\ pc = "truncate"
    /\ tokens' = Encode(context)
    /\ truncated_context' = truncate_text(context, max_context_tokens)
    /\ pc' = "chat"
    /\ UNCHANGED <<qvars, rvars, pvars, fvars, context, prompt_context>>

\* lines 243-246: the synthesis call
SynthesisCall ==
    /\ pc = "chat"
    /\ prompt_context' = truncated_context
    /\ pc' = "chat_returned"
    /\ UNCHANGED <<qvars, rvars, pvars, fvars, context, tokens, truncated_context>>

NextContext == AssembleContext \/ TruncateText \/ SynthesisCall

SpecContext == InitContext /\ [][NextContext]_vars

C6_WitnessWithin ==
    /\ pc = "chat_returned"
    /\ Len(Encode(context)) \in 1..max_context_tokens
    /\ prompt_context = context

\* ====================================================================
\* format_response and stream_formatted_response
\* ====================================================================
\* the bound on the number of lines of an answer
MaxLines == 2

\* \s and \d over the characters of the answers
IsSpace(c) == c = " "
IsDigit(c) == c \in {"1", "2"}

\* s.strip(chars): s without its leading and trailing characters of drop
StripOf(s, drop) ==
    LET keep == {i \in DOMAIN s : s[i] \notin drop}
    IN IF keep = {} THEN << >>
       ELSE SubSeq(s, CHOOSE i \in keep : \A j \in keep : i <= j,
                      CHOOSE i \in keep : \A j \in keep : j <= i)

\* str.strip()
strip(s) == StripOf(s, {" "})

\* answer.split('\n')
RECURSIVE split_lines(_)
split_lines(s) ==
    IF \E i \in 1..Len(s) : s[i] = "\n"
    THEN LET i == CHOOSE j \in 1..Len(s) :
                      s[j] = "\n" /\ \A h \in 1..(j - 1) : s[h] # "\n"
         IN <<SubSeq(s, 1, i - 1)>> \o split_lines(SubSeq(s, i + 1, Len(s)))
    ELSE <<s>>

\* content.split(): the maximal runs of characters that are not whitespace
RECURSIVE split_words(_)
split_words(s) ==
    LET t == strip(s)
    IN IF t = << >> THEN << >>
       ELSE IF \E i \in 1..Len(t) : IsSpace(t[i])
       THEN LET i == CHOOSE j \in 1..Len(t) :
                         IsSpace(t[j]) /\ \A h \in 1..(j - 1) : ~IsSpace(t[h])
            IN <<SubSeq(t, 1, i - 1)>> \o split_words(SubSeq(t, i + 1, Len(t)))
       ELSE <<t>>

\* sep.join(parts)
RECURSIVE join(_, _)
join(sep, parts) ==
    IF parts = << >> THEN << >>
    ELSE IF Len(parts) = 1 THEN parts[1]
    ELSE parts[1] \o sep \o join(sep, Tail(parts))

\* re.match(r'^\s*[\-\*]\s', line)
MatchBullet(line) ==
    \E i \in 1..(Len(line) - 1) :
        /\ \A h \in 1..(i - 1) : IsSpace(line[h])
        /\ line[i] \in {"-", "*"}
        /\ IsSpace(line[i + 1])

\* re.match(r'^\s*\d+\.\s', line)
MatchNumber(line) ==
    \E i \in 1..Len(line) : \E j \in i..(Len(line) - 2) :
        /\ \A h \in 1..(i - 1) : IsSpace(line[h])
        /\ \A h \in i..j : IsDigit(line[h])
        /\ line[j + 1] = "."
        /\ IsSpace(line[j + 2])

\* len(re.match(r'^#+', s).group()): the number of '#' s starts with
LeadingHashes(s) ==
    IF \A i \in DOMAIN s : s[i] = "#" THEN Len(s)
    ELSE (CHOOSE i \in DOMAIN s : s[i] # "#" /\ \A h \in 1..(i - 1) : s[h] = "#") - 1

\* a chunk: its type and its content, the content of a header being the
\* pair (level, text) and of the other types a text (level 0 here)
Chunk(type, level, text) == [type |-> type, level |-> level, text |-> text]

\* the header's text, line 286: line.strip('#').strip()
HeaderText(line) == strip(StripOf(line, {"#"}))

\* lines 280-288: the chunk of one line
format_line(line) ==
    IF MatchBullet(line) THEN Chunk("bullet", 0, strip(line))
    ELSE IF MatchNumber(line) THEN Chunk("number", 0, strip(line))
    ELSE IF strip(line) # << >> /\ strip(line)[1] = "#"
    THEN Chunk("header", LeadingHashes(strip(line)), HeaderText(line))
    ELSE Chunk("text", 0, strip(line))

\* lines 276-289
format_response(text) ==
    LET lines == split_lines(text) IN [i \in DOMAIN lines |-> format_line(lines[i])]

\* str(n) for one digit
Digits == <<"1", "2", "3", "4", "5", "6", "7", "8", "9">>

\* repr(text) for a text without quotes, backslashes and control characters
repr(text) == <<"'">> \o text \o <<"'">>

\* f"{content}": a text as it is, the pair of a header as str((level, text))
str_content(c) ==
    IF c.type = "header"
    THEN <<"(", Digits[c.level], ",", " ">> \o repr(c.text) \o <<")">>
    ELSE c.text

\* words[i:i+5]
WindowSize == 5
Window(words, i) == SubSeq(words, i + 1, Min(i + WindowSize, Len(words)))

\* the lines the answers are made of
LinePool ==
    { << >>, <<" ">>, <<"a">>, <<" ", "a", " ">>, <<"a", " ", " ", "b">>,
      <<"-", " ", "a">>, <<" ", "*", " ", "a">>, <<"-", "a">>,
      <<"1", ".", " ", "a">>, <<"1", "2", ".", " ", "a">>, <<"1", ".", "a">>,
      <<"#", " ", "a">>, <<" ", "#", " ", "a">>, <<"#", "#", " ", "a", " ", "#">>,
      <<"#">>,
      <<"a", " ", "b", " ", "c", " ", "d", " ", "e">>,
      <<"a", " ", "b", " ", "c", " ", "d", " ", "e", " ", "f">> }
Answers ==
    {join(<<"\n">>, ls) : ls \in UNION {[1..n -> LinePool] : n \in 1..MaxLines}}

InitFormat ==
    /\ store = << >> /\ keywords = << >> /\ db_results = << >>
    /\ IdleRetrieval
    /\ IdlePipeline
    /\ IdleContext
    /\ answer \in Answers
    /\ formatted_chunks = << >>
    /\ response_buffer = << >>
    /\ yielded = << >>
    /\ chunk_index = 0
    /\ word_index = 0
    /\ pc = "format"

\* line 398: format_response(answer)
FormatResponse ==
    /\ pc = "format"
    /\ formatted_chunks' = format_response(answer)
    /\ chunk_index' = 1
    /\ pc' = "stream"
    /\ UNCHANGED <<qvars, rvars, pvars, cvars, answer, response_buffer, yielded, word_index>>

Yield(buffer) == Append(yielded, [chunk |-> chunk_index, buffer |-> buffer])

\* lines 293-297: a bullet, number or header chunk, up to its yield
StreamWhole ==
    /\ pc = "stream" /\ chunk_index <= Len(formatted_chunks)
    /\ LET c == formatted_chunks[chunk_index]
       IN /\ c.type \in {"bullet", "number", "header"}
          /\ response_buffer' =
                 response_buffer \o str_content(c) \o <<"\n">>
                     \o (IF c.type = "header" THEN <<"\n">> ELSE << >>)
    /\ yielded' = Yield(response_buffer')
    /\ chunk_index' = chunk_index + 1
    /\ UNCHANGED <<qvars, rvars, pvars, cvars, pc, answer, formatted_chunks, word_index>>

\* lines 300-304: one window of a text chunk, up to its yield
StreamWindow ==
    /\ pc = "stream" /\ chunk_index <= Len(formatted_chunks)
    /\ LET c == formatted_chunks[chunk_index]
           words == split_words(c.text)
       IN /\ c.type = "text"
          /\ word_index < Len(words)
          /\ response_buffer' =
                 response_buffer \o join(<<" ">>, Window(words, word_index)) \o <<" ">>
    /\ yielded' = Yield(response_buffer')
    /\ word_index' = word_index + WindowSize
    /\ UNCHANGED <<qvars, rvars, pvars, cvars, pc, answer, formatted_chunks, chunk_index>>

\* lines 306-307: the end of a text chunk, up to its yield
StreamParagraphEnd ==
    /\ pc = "stream" /\ chunk_index <= Len(formatted_chunks)
    /\ LET c == formatted_chunks[chunk_index]
       IN /\ c.type = "text"
          /\ word_index >= Len(split_words(c.text))
    /\ response_buffer' = response_buffer \o <<"\n", "\n">>
    /\ yielded' = Yield(response_buffer')
    /\ chunk_index' = chunk_index + 1
    /\ word_index' = 0
    /\ UNCHANGED <<qvars, rvars, pvars, cvars, pc, answer, formatted_chunks>>

\* line 292: the chunks loop is over
StreamEnd ==
    /\ pc = "stream" /\ chunk_index > Len(formatted_chunks)
    /\ pc' = "streamed"
    /\ UNCHANGED <<qvars, rvars, pvars, cvars, fvars>>

NextFormat ==
    FormatResponse \/ StreamWhole \/ StreamWindow \/ StreamParagraphEnd \/ StreamEnd

SpecFormat == InitFormat /\ [][NextFormat]_vars

\* ====================================================================
\* Properties of format_response and stream_formatted_response (SpecFormat)
\* ====================================================================
Formatted == pc \in {"stream", "streamed"}

\* one chunk per line of the answer, in the order of the lines, a blank line
\* giving an empty text chunk
OneChunkPerLine ==
    Formatted =>
        LET lines == split_lines(answer)
        IN /\ Len(formatted_chunks) = Len(lines)
           /\ \A i \in DOMAIN lines :
                  /\ formatted_chunks[i] = format_line(lines[i])
                  /\ strip(lines[i]) = << >> =>
                         formatted_chunks[i] = Chunk("text", 0, << >>)

\* C7: format_response returns one chunk per line of the answer, in order,
\* blank lines giving empty text chunks; the text of a chunk is its line
\* (trimmed), except that a header's level is the number of '#' the line
\* starts with and its text is the remainder of the line, trimmed.
C7_LinePreserving ==
    Formatted =>
        LET lines == split_lines(answer)
        IN /\ Len(formatted_chunks) = Len(lines)
           /\ \A i \in DOMAIN lines :
                  LET c == formatted_chunks[i]
                      s == strip(lines[i])
                  IN /\ s = << >> => c.type = "text" /\ c.text = << >>
                     /\ c.type = "header" =>
                            /\ c.level = LeadingHashes(s)
                            /\ c.text = strip(SubSeq(s, c.level + 1, Len(s)))
                     /\ c.type # "header" => c.text = s

\* what each yield appended, with the chunk the loop was at
AppendList ==
    [k \in DOMAIN yielded |->
        LET prev == IF k = 1 THEN << >> ELSE yielded[k - 1].buffer
        IN [chunk |-> yielded[k].chunk,
            grows |-> Len(prev) <= Len(yielded[k].buffer)
                      /\ SubSeq(yielded[k].buffer, 1, Len(prev)) = prev,
            text |-> SubSeq(yielded[k].buffer, Len(prev) + 1, Len(yielded[k].buffer))]]
AppendsOf(j) ==
    LET sel == SelectSeq(AppendList, LAMBDA a : a.chunk = j)
    IN [i \in DOMAIN sel |-> sel[i].text]

\* the appends that a chunk calls for: its text, whole and with the line
\* ending, for a header, bullet or number; for a text its windows of 5 words
\* in order, each with a space after it, and the paragraph ending
NumWindows(words) == (Len(words) + WindowSize - 1) \div WindowSize
ExpectedAppends(c) ==
    IF c.type = "text"
    THEN LET words == split_words(c.text)
         IN [w \in 1..NumWindows(words) |->
                join(<<" ">>, Window(words, (w - 1) * WindowSize)) \o <<" ">>]
            \o << <<"\n", "\n">> >>
    ELSE << c.text \o <<"\n">> \o (IF c.type = "header" THEN <<"\n">> ELSE << >>) >>

\* the yields follow the chunks of the given types
StreamFollows(types) ==
    /\ \A k \in DOMAIN AppendList : AppendList[k].grows
    /\ \A j \in DOMAIN formatted_chunks :
           formatted_chunks[j].type \in types =>
               LET got == AppendsOf(j)
                   want == ExpectedAppends(formatted_chunks[j])
               IN /\ Len(got) <= Len(want)
                  /\ \A i \in DOMAIN got : got[i] = want[i]
                  /\ j < chunk_index => Len(got) = Len(want)

\* C9: every yielded buffer is the buffer yielded before it with text
\* appended; a header, bullet or numbered chunk is appended whole, its text
\* in one step; a text chunk is appended in consecutive windows of 5 words,
\* the last one possibly shorter, in the order of the words.
C9_GrowingBuffer == StreamFollows({"header", "bullet", "number", "text"})

\* the same of the bullet, numbered and text chunks alone
StreamFollowsButHeaders == StreamFollows({"bullet", "number", "text"})

\* a text chunk of more than one window was streamed to its end
TwoWindowsStreamed ==
    \E j \in DOMAIN formatted_chunks :
        /\ j < chunk_index
        /\ formatted_chunks[j].type = "text"
        /\ Len(AppendsOf(j)) = 3

\* ====================================================================
\* Properties of get_answer and of the safe_run_tree wrappers (Spec)
\* ====================================================================
Finished == ga.phase \in {"returned", "raised"}
NoFaults == faults.trace = 0 /\ faults.collab = 0

\* C3: when identify_intents returns the empty list, get_answer does not
\* fail: the later stages run on empty keyword and retrieval sets and
\* get_answer returns normally (no call fails in the runs considered).
C3_EmptyIntentsReturn ==
    (Finished /\ NoFaults /\ loc.intents = << >>) =>
        /\ ga.phase = "returned"
        /\ loc.intent_keywords = << >>
        /\ loc.intent_data = << >>

\* C4: no wrapped operation's body is executed more than once in one
\* invocation, also when a collaborator call or a tracing call raises, and a
\* collaborator failure reaches get_answer's caller as that error.
C4_NoReexecution ==
    /\ \A op \in Ops : runs[op] <= 1
    /\ (Finished /\ faults.collab > 0) =>
           (ga.phase = "raised" /\ error = "collaborator")

\* C5: when a tracing call of a wrapper fails (opening the trace or recording
\* the end of the run) and no execution of the wrapped operation fails, the
\* wrapper returns the operation's result to its caller and raises nothing.
C5_TracingFailureNotFatal ==
    /\ (last.trace_failed /\ ~last.body_failed) => last.outcome = "returned"
    /\ (Finished /\ ga.trace_failed /\ ~ga.body_failed) =>
           (ga.phase = "returned" /\ error = "none"
            /\ loc.final_answer \in AnswerPool)
    /\ (iw.phase = "body" /\ iw.attempt = 2) => (iw.trace_failed \/ iw.body_failed)

\* C5's case: a tracing call failed in the wrapper of a called operation and
\* in get_answer's own wrapper, no body failed, and both returned
C5_Witness ==
    /\ ga.phase = "returned"
    /\ ga.trace_failed /\ ~ga.body_failed
    /\ last.trace_failed /\ ~last.body_failed /\ last.outcome = "returned"

\* the document ids among the ranked matches of all the intents of d
DocIds(d) == UNION {{e.row.id : e \in Range(d[i].db_results)} : i \in DOMAIN d}

\* C8: if extract_keywords_from_response returns exactly the first-pass
\* keywords, every document among pass 1's ranked matches is also among
\* pass 2's ranked matches (no call fails in the runs considered).
C8_Pass2Superset ==
    (/\ ga.phase = "returned"
     /\ NoFaults
     /\ loc.response_keywords = loc.intent_keywords[1].keywords) =>
        DocIds(loc.intent_data) \subseteq DocIds(loc.expanded_intent_data)

\* the stages of one retrieval over the intents of m, in their order: per
\* intent the metadata query, then the embedding and the index query
RECURSIVE RetrievalStages(_)
RetrievalStages(m) ==
    IF m = << >> THEN << >>
    ELSE <<Stage("query_db_for_keywords", m[1].intent, m[1].keywords),
           Stage("get_embedding", "-", << >>),
           Stage("index.query", m[1].intent, << >>)>>
         \o RetrievalStages(Tail(m))

\* nothing was raised in the run: no call failed, and get_answer's body
\* raised nothing itself (the IndexError of line 269)
NoFailure == NoFaults /\ ~ga.trace_failed /\ ~ga.body_failed

SynthesisCalls == {k \in DOMAIN log : log[k].op = "generate_multi_intent_answer"}

\* C11: in a run of get_answer that returns and in which nothing was raised,
\* the stages ran in this order: intent extraction, keyword generation, the
\* retrieval of pass 1 (per intent in intent order the metadata query, then
\* one vector query), the draft synthesis, the keyword extraction, the
\* retrieval of pass 2 with the query as the one intent and the union
\* keywords, the final synthesis; the synthesis calls are two, and the
\* returned keywords hold every keyword of the first intent and every
\* extracted keyword, none twice.
C11_StagesInOrder ==
    (ga.phase = "returned" /\ NoFailure) =>
        /\ loc.intent_keywords # << >>
        /\ log = <<Stage("identify_intents", "-", << >>),
                   Stage("generate_keywords_per_intent", "-", << >>)>>
                 \o RetrievalStages(loc.intent_keywords)
                 \o <<Stage("generate_multi_intent_answer", "-", << >>),
                      Stage("extract_keywords_from_response", "-", << >>)>>
                 \o RetrievalStages(<<[intent |-> Query, keywords |-> loc.all_keywords]>>)
                 \o <<Stage("generate_multi_intent_answer", "-", << >>)>>
        /\ Cardinality(SynthesisCalls) = 2
        /\ Range(loc.intent_keywords[1].keywords) \cup Range(loc.response_keywords)
               \subseteq Range(loc.all_keywords)
        /\ \A i, j \in DOMAIN loc.all_keywords :
               loc.all_keywords[i] = loc.all_keywords[j] => i = j

\* C11's case: a run returned with no failure, both passes in the log, and
\* the union dropped a keyword the draft repeated
C11_Witness ==
    /\ ga.phase = "returned" /\ NoFailure
    /\ Cardinality(SynthesisCalls) = 2
    /\ Len(loc.all_keywords) >= 2
    /\ Len(loc.intent_keywords[1].keywords) + Len(loc.response_keywords)
           > Len(loc.all_keywords)

\* ====================================================================
\* Properties of query_db_for_keywords (SpecQuery)
\* ====================================================================
QueryReturned == pc = "query_db_returned"

\* the entries of s that have score v, in order
WithScore(s, v) == SelectSeq(s, LAMBDA e : e.score = v)

IsPrefix(p, s) == Len(p) <= Len(s) /\ SubSeq(s, 1, Len(p)) = p

\* the entries the loop of lines 203-207 appends, described pair by pair:
\* one for keyword number ki and row number ri when the row's tags contain
\* the keyword
Matched(ki, ri) == Like(store[ri].tags, keywords[ki])
PairScore(ki, ri) == ScoreTable[keywords[ki]][store[ri].tags]
Pairs == (DOMAIN keywords) \X (DOMAIN store)
MatchedPairs == {p \in Pairs : Matched(p[1], p[2])}

\* C2 as amended: the returned list has at most 3 entries, is sorted by
\* descending score, and entries with equal scores keep the order in which
\* the loop produced them: keyword by keyword in keyword-list order, and
\* within one keyword in the store's row order.
C2_Top3SortedStable ==
    QueryReturned =>
        /\ Len(db_results) <= 3
        /\ \A i, j \in DOMAIN db_results :
              i < j => db_results[i].score >= db_results[j].score
        /\ \A v \in {e.score : e \in Range(db_results)} :
              IsPrefix(WithScore(db_results, v),
                       WithScore(Candidates(keywords, store), v))
        /\ \A i, j \in DOMAIN db_results :
              (i < j /\ db_results[i].score = db_results[j].score) =>
                  \E p, q \in MatchedPairs :
                      /\ store[p[2]] = db_results[i].row
                      /\ store[q[2]] = db_results[j].row
                      /\ PairScore(p[1], p[2]) = db_results[i].score
                      /\ PairScore(q[1], q[2]) = db_results[j].score
                      /\ (p[1] < q[1] \/ (p[1] = q[1] /\ p[2] < q[2]))

\* C2 as stated: at most 3 entries, sorted by descending score, and entries
\* with equal scores in the store's row order, whichever keyword produced them.
C2_TiesInRowOrder ==
    QueryReturned =>
        /\ Len(db_results) <= 3
        /\ \A i, j \in DOMAIN db_results :
              i < j => db_results[i].score >= db_results[j].score
        /\ \A i, j \in DOMAIN db_results :
              (i < j /\ db_results[i].score = db_results[j].score) =>
                  db_results[i].row.id <= db_results[j].row.id

\* C2's case: more than 3 entries were found, and two returned entries that
\* tie come from different keywords, the later row first
C2_Witness ==
    /\ QueryReturned
    /\ Len(Candidates(keywords, store)) > 3
    /\ Len(db_results) = 3
    /\ \E i, j \in DOMAIN db_results :
          /\ i < j
          /\ db_results[i].score = db_results[j].score
          /\ db_results[i].row.id > db_results[j].row.id

\* the entries other than that of pair p that score at least v
AtLeast(p, v) == {q \in MatchedPairs : q # p /\ PairScore(q[1], q[2]) >= v}

AllHigher(p, v) == {q \in Pairs : q # p /\ PairScore(q[1], q[2]) > v}

EntryPlaces ==
    {pl \in (DOMAIN intent_data) \X (1..TopK) :
        pl[2] \in DOMAIN intent_data[pl[1]].db_results}
EntryId(pl) == intent_data[pl[1]].db_results[pl[2]].row.id

\* the ids that query_db_for_keywords returns for intent number i
FoundIds(i) ==
    {e.row.id : e \in Range(query_db_for_keywords(intent_keywords[i].keywords, store))}

\* C1: the result holds every document id at most once over all the
\* intents' db_results lists taken together, two entries of one list
\* included, and a document matched by several intents is attributed to the
\* first intent processed.
C1_NoDuplicateIds ==
    pc = "intents_returned" =>
        /\ \A pl, pm \in EntryPlaces : pl # pm => EntryId(pl) # EntryId(pm)
        /\ \A i \in DOMAIN intent_data : \A d \in FoundIds(i) :
              LET first == CHOOSE f \in 1..i :
                               d \in FoundIds(f) /\ \A g \in 1..(f - 1) : d \notin FoundIds(g)
              IN \E pl \in EntryPlaces : pl[1] = first /\ EntryId(pl) = d

====
